---- MODULE Spec2Model ----
(***************************************************************************)
(* Check deposit pipeline of CS160-Online-Banking.                         *)
(*                                                                         *)
(*   Part I  - the idempotent ledger write path (transaction helpers:      *)
(*             createDeniedTransaction, findExistingTransaction,           *)
(*             createApprovedTransaction) run by concurrent callers        *)
(*             against the shared transaction table.                       *)
(*   Part II - the check-verification POST handler (recognition, field     *)
(*             extraction, amount canonicalization, deposit forwarding).   *)
(*                                                                         *)
(* Strings that the code inspects character by character are sequences of  *)
(* one-character strings; opaque keys are plain strings.                   *)
(***************************************************************************)
EXTENDS Integers, Sequences, FiniteSets, TLC

\* ------------------------------------------------------------------------
\* Bounds
\* ------------------------------------------------------------------------
\* number of concurrent callers of the ledger write path
NumCallers == 2

\* ------------------------------------------------------------------------
\* Part I : the ledger
\* ------------------------------------------------------------------------
VARIABLES transactions, lpc, req, found, storeError, result

ledgerVars == <<transactions, lpc, req, found, storeError, result>>

\* Part II : one submission at a time runs through POST; deposits is the log
\* of the requests sent to the downstream deposit endpoint
VARIABLES rpc, nSub, frontResp, backResp, combinedResp, checkId, amountString,
          endorsementPresent, amountCents, destAccount, depositOutcome,
          response, deposits

routeVars == <<rpc, nSub, frontResp, backResp, combinedResp, checkId,
               amountString, endorsementPresent, amountCents, destAccount,
               depositOutcome, response, deposits>>

vars == <<ledgerVars, routeVars>>

Callers == 1..NumCallers

\* null / undefined of an optional string field
NULL == "<null>"
\* an absent (undefined) rule id; like 0 it is falsy in the lookup
NoRule == 0

TransactionTypes == {"deposit"}
Directions == {"inbound"}
Accounts == {1}
Amounts == {100, 250}
IdemKeys == {NULL, "k1"}
CheckNumbers == {NULL, "", "k1"}
BillPayRuleIds == {NoRule, 7}
TransferRuleIds == {NoRule}

\* the data / params argument of the three helpers
Requests ==
  [ internal_account_id : Accounts,
    amount              : Amounts,
    transaction_type    : TransactionTypes,
    direction           : Directions,
    idempotency_key     : IdemKeys,
    check_number        : CheckNumbers,
    bill_pay_rule_id    : BillPayRuleIds,
    transfer_rule_id    : TransferRuleIds ]

\* JavaScript truthiness of an optional string: null, undefined and "" are falsy
Truthy(s) == s # NULL /\ s # ""

\* typeof s === "string"
IsString(s) == s # NULL

\* the row that create() stores: ...data, check_number ?? null, status
Row(data, status) ==
  [ internal_account_id |-> data.internal_account_id,
    amount              |-> data.amount,
    transaction_type    |-> data.transaction_type,
    direction           |-> data.direction,
    idempotency_key     |-> data.idempotency_key,
    check_number        |-> data.check_number,
    bill_pay_rule_id    |-> data.bill_pay_rule_id,
    transfer_rule_id    |-> data.transfer_rule_id,
    status              |-> status ]

\* storage faults other than the uniqueness violation (connection lost, ...)
StoreFaults == {"none", "P1001"}

\* The uniqueness constraint of the transaction table: at most one approved
\* row per (transaction_type, internal_account_id, amount, rule ids,
\* idempotency_key | check_number).
SameUniqueTuple(r, s) ==
  /\ r.transaction_type = s.transaction_type
  /\ r.internal_account_id = s.internal_account_id
  /\ r.amount = s.amount
  /\ r.bill_pay_rule_id = s.bill_pay_rule_id
  /\ r.transfer_rule_id = s.transfer_rule_id
  /\ \/ r.idempotency_key # NULL /\ r.idempotency_key = s.idempotency_key
     \/ r.check_number # NULL /\ r.check_number = s.check_number

UniqueViolation(table, row) ==
  /\ row.status = "approved"
  /\ \E i \in 1..Len(table) :
        table[i].status = "approved" /\ SameUniqueTuple(table[i], row)

\* tx.transaction.create: "ok", the conflict code "P2002", or another fault
CreateOutcome(table, row, fault) ==
  IF fault # "none" THEN fault
  ELSE IF UniqueViolation(table, row) THEN "P2002"
  ELSE "ok"

\* baseWhere of findExistingTransaction
BaseWhere(r, params) ==
  /\ r.transaction_type = params.transaction_type
  /\ r.internal_account_id = params.internal_account_id
  /\ r.amount = params.amount
  /\ (params.bill_pay_rule_id # NoRule
        => r.bill_pay_rule_id = params.bill_pay_rule_id)
  /\ (params.transfer_rule_id # NoRule
        => r.transfer_rule_id = params.transfer_rule_id)

\* OR: orClauses of findExistingTransaction
OrClauses(r, params) ==
  \/ Truthy(params.idempotency_key)
       /\ r.idempotency_key = params.idempotency_key
  \/ IsString(params.check_number)
       /\ r.check_number = params.check_number

\* a lookup that compares one key, the idempotency key or else the check
\* number, with both columns
findExistingTransaction_oneKey(table, params) ==
  LET K == IF Truthy(params.idempotency_key) THEN params.idempotency_key
           ELSE params.check_number
      hits == { i \in 1..Len(table) :
                  /\ BaseWhere(table[i], params)
                  /\ (table[i].idempotency_key = K \/ table[i].check_number = K) }
  IN IF ~Truthy(K) \/ hits = {} THEN 0
     ELSE CHOOSE i \in hits : \A j \in hits : i <= j

\* a lookup that forgets the check_number clause
findExistingTransaction_idemOnly(table, params) ==
  IF ~Truthy(params.idempotency_key) /\ ~Truthy(params.check_number) THEN 0
  ELSE LET hits == { i \in 1..Len(table) :
                       /\ BaseWhere(table[i], params)
                       /\ Truthy(params.idempotency_key)
                       /\ table[i].idempotency_key = params.idempotency_key }
       IN IF hits = {} THEN 0 ELSE CHOOSE i \in hits : \A j \in hits : i <= j

\* findExistingTransaction: index of the first matching row, 0 for null
findExistingTransaction(table, params) ==
  IF ~Truthy(params.idempotency_key) /\ ~Truthy(params.check_number) THEN 0
  ELSE LET hits == { i \in 1..Len(table) :
                       BaseWhere(table[i], params) /\ OrClauses(table[i], params) }
       IN IF hits = {} THEN 0 ELSE CHOOSE i \in hits : \A j \in hits : i <= j

\* what a helper hands back to its caller
NoResult == [kind |-> "none", success |-> FALSE, duplicate |-> FALSE, code |-> "none"]
Returned(dup) == [kind |-> "returned", success |-> TRUE, duplicate |-> dup, code |-> "none"]
Thrown(code) == [kind |-> "thrown", success |-> FALSE, duplicate |-> FALSE, code |-> code]
Denied == [kind |-> "denied", success |-> FALSE, duplicate |-> FALSE, code |-> "none"]

\* createApprovedTransaction: the result for an outcome of create()
ApprovedResult(data, outcome) ==
  IF outcome = "ok" THEN Returned(FALSE)
  ELSE IF Truthy(data.idempotency_key) /\ outcome = "P2002" THEN Returned(TRUE)
  ELSE Thrown(outcome)

LedgerInit ==
  /\ transactions = <<>>
  /\ lpc = [c \in Callers |-> "idle"]
  /\ req = [c \in Callers |-> CHOOSE p \in Requests : TRUE]
  /\ found = [c \in Callers |-> 0]
  /\ storeError = [c \in Callers |-> "none"]
  /\ result = [c \in Callers |-> NoResult]

\* a caller receives a write request
Submit(c) ==
  /\ lpc[c] = "idle"
  /\ \E p \in Requests : req' = [req EXCEPT ![c] = p]
  /\ lpc' = [lpc EXCEPT ![c] = "lookup"]
  /\ UNCHANGED <<transactions, found, storeError, result>>
  /\ UNCHANGED routeVars

\* the caller looks the request up; a hit is reported as a duplicate
Lookup(c) ==
  /\ lpc[c] = "lookup"
  /\ LET hit == findExistingTransaction(transactions, req[c])
     IN /\ found' = [found EXCEPT ![c] = hit]
        /\ IF hit # 0
             THEN /\ result' = [result EXCEPT ![c] = Returned(TRUE)]
                  /\ lpc' = [lpc EXCEPT ![c] = "done"]
             ELSE /\ result' = result
                  /\ lpc' = [lpc EXCEPT ![c] = "validate"]
  /\ UNCHANGED <<transactions, req, storeError>>
  /\ UNCHANGED routeVars

\* createDeniedTransaction: business validation failed
Deny(c) ==
  /\ lpc[c] = "validate"
  /\ \E fault \in StoreFaults :
       LET row == Row(req[c], "denied")
           outcome == CreateOutcome(transactions, row, fault)
       IN /\ transactions' = IF outcome = "ok" THEN Append(transactions, row)
                             ELSE transactions
          /\ storeError' = [storeError EXCEPT ![c] = outcome]
          /\ result' = [result EXCEPT ![c] =
                          IF outcome = "ok" THEN Denied ELSE Thrown(outcome)]
  /\ lpc' = [lpc EXCEPT ![c] = "done"]
  /\ UNCHANGED <<req, found>>
  /\ UNCHANGED routeVars

\* createApprovedTransaction
Approve(c) ==
  /\ lpc[c] = "validate"
  /\ \E fault \in StoreFaults :
       LET row == Row(req[c], "approved")
           outcome == CreateOutcome(transactions, row, fault)
       IN /\ transactions' = IF outcome = "ok" THEN Append(transactions, row)
                             ELSE transactions
          /\ storeError' = [storeError EXCEPT ![c] = outcome]
          /\ result' = [result EXCEPT ![c] = ApprovedResult(req[c], outcome)]
  /\ lpc' = [lpc EXCEPT ![c] = "done"]
  /\ UNCHANGED <<req, found>>
  /\ UNCHANGED routeVars

LedgerNext ==
  \/ \E c \in Callers : Submit(c)
  \/ \E c \in Callers : Lookup(c)
  \/ \E c \in Callers : Deny(c)
  \/ \E c \in Callers : Approve(c)

\* ------------------------------------------------------------------------
\* Properties of the ledger write path
\* ------------------------------------------------------------------------
\* the check identity of a ledger request
SameCheck(p, q) ==
  /\ p.transaction_type = q.transaction_type
  /\ p.internal_account_id = q.internal_account_id
  /\ p.amount = q.amount
  /\ p.check_number = q.check_number

SameRules(p, q) ==
  /\ p.bill_pay_rule_id = q.bill_pay_rule_id
  /\ p.transfer_rule_id = q.transfer_rule_id

ApprovedFor(p) ==
  { i \in 1..Len(transactions) :
      transactions[i].status = "approved" /\ SameCheck(transactions[i], p) }

\* the caller went through lookup and, if it inserted, met no fault other
\* than the uniqueness conflict
RanWritePath(c) ==
  /\ lpc[c] = "done"
  /\ result[c].kind # "denied"
  /\ storeError[c] \in {"none", "ok", "P2002"}

\* C1: two concurrent submissions with identical (transaction_type,
\* internal_account_id, amount, check_number) leave exactly one approved
\* record, and both callers get a success result, under every interleaving
\* of their lookup and insert steps.
C1_ConcurrentExactlyOnce ==
  \A c, d \in Callers :
    ( /\ c # d
      /\ RanWritePath(c) /\ RanWritePath(d)
      /\ req[c] = req[d]
      /\ Truthy(req[c].check_number) )
    => /\ Cardinality(ApprovedFor(req[c])) = 1
       /\ result[c].kind = "returned" /\ result[c].success
       /\ result[d].kind = "returned" /\ result[d].success

\* C2: at most one approved record exists per physical check (the check
\* number of an account), whatever amounts the submissions extracted.
C2_OncePerCheck ==
  \A i, j \in 1..Len(transactions) :
    ( /\ transactions[i].status = "approved"
      /\ transactions[j].status = "approved"
      /\ Truthy(transactions[i].check_number)
      /\ transactions[i].check_number = transactions[j].check_number
      /\ transactions[i].transaction_type = transactions[j].transaction_type
      /\ transactions[i].internal_account_id = transactions[j].internal_account_id
      /\ SameRules(transactions[i], transactions[j]) )
    => i = j

\* C3: when a check is submitted again after its approved record was
\* inserted, the lookup finds the record, nothing is written and the caller
\* gets success with duplicate = true; the first call's insert adds exactly
\* its approved row and reports success without the duplicate flag.
C3_SecondSubmissionIsDuplicate ==
  [][ \A c \in Callers :
        /\ ( /\ lpc[c] = "lookup" /\ lpc'[c] # "lookup"
             /\ Truthy(req[c].check_number)
             /\ \E i \in 1..Len(transactions) :
                   /\ transactions[i].status = "approved"
                   /\ SameCheck(transactions[i], req[c])
                   /\ SameRules(transactions[i], req[c]) )
           => /\ transactions' = transactions
              /\ lpc'[c] = "done"
              /\ found'[c] # 0
              /\ result'[c] = Returned(TRUE)
        /\ ( /\ lpc[c] = "validate" /\ lpc'[c] = "done"
             /\ storeError'[c] = "ok" /\ result'[c].kind = "returned" )
           => /\ transactions' = Append(transactions, Row(req[c], "approved"))
              /\ result'[c] = Returned(FALSE)
    ]_vars

\* C3 witness: one caller inserted the check, the other then found it
C3_Witness ==
  \E c, d \in Callers :
    /\ c # d
    /\ req[c] = req[d]
    /\ Truthy(req[c].check_number) /\ ~Truthy(req[c].idempotency_key)
    /\ lpc[c] = "done" /\ result[c] = Returned(FALSE)
    /\ lpc[d] = "done" /\ result[d] = Returned(TRUE) /\ found[d] # 0
    /\ Len(transactions) = 1

\* C4: an insert that fails with the uniqueness violation returns success
\* with duplicate = true whatever the record's deduplication key is, every
\* other storage error is re-raised, and neither adds a record.
C4_ConflictIsDuplicate ==
  [][ \A c \in Callers :
        ( lpc[c] = "validate" /\ lpc'[c] = "done" )
        => /\ storeError'[c] = "P2002"
                => result'[c] = Returned(TRUE) /\ transactions' = transactions
           /\ storeError'[c] \notin {"ok", "P2002"}
                => /\ result'[c] = Thrown(storeError'[c])
                   /\ transactions' = transactions
    ]_vars

\* C9: a denied record is never what makes the lookup report a later
\* submission as already processed.
C9_DeniedNeverFound ==
  \A c \in Callers :
    found[c] # 0 => transactions[found[c]].status # "denied"

\* ------------------------------------------------------------------------
\* Part II : the check-verification route
\* ------------------------------------------------------------------------
\* Text is a sequence of one-character strings.
Digit == {"0", "1", "2", "3", "4", "5", "6", "7", "8", "9"}
Lower == {"a", "b", "c", "d", "e", "f", "g", "h", "i", "j", "k", "l", "m",
          "n", "o", "p", "q", "r", "s", "t", "u", "v", "w", "x", "y", "z"}
Upper == {"A", "B", "C", "D", "E", "F", "G", "H", "I", "J", "K", "L", "M",
          "N", "O", "P", "Q", "R", "S", "T", "U", "V", "W", "X", "Y", "Z"}
\* \s of the regular expressions
Space == {" ", "\n", "\t"}
\* [.,] of the amount patterns
Separator == {".", ","}

\* String.prototype.toLowerCase on one character
ToLowerChar(ch) ==
  IF ch \in Upper
    THEN CHOOSE l \in Lower :
           \E i \in 1..26 :
              /\ <<"A", "B", "C", "D", "E", "F", "G", "H", "I", "J", "K", "L", "M",
                   "N", "O", "P", "Q", "R", "S", "T", "U", "V", "W", "X", "Y", "Z">>[i] = ch
              /\ <<"a", "b", "c", "d", "e", "f", "g", "h", "i", "j", "k", "l", "m",
                   "n", "o", "p", "q", "r", "s", "t", "u", "v", "w", "x", "y", "z">>[i] = l
    ELSE ch

ToLower(t) == [i \in 1..Len(t) |-> ToLowerChar(t[i])]

\* t has the literal w at position i
HasAt(t, i, w) ==
  /\ i >= 1
  /\ i + Len(w) - 1 <= Len(t)
  /\ \A j \in 1..Len(w) : t[i + j - 1] = w[j]

Contains(t, w) == \E i \in 1..Len(t) : HasAt(t, i, w)

\* t has n digits at positions i .. i+n-1
DigitsAt(t, i, n) ==
  /\ i >= 1
  /\ i + n - 1 <= Len(t)
  /\ \A j \in i..(i + n - 1) : t[j] \in Digit

\* parts.join(sep)
RECURSIVE Join(_, _)
Join(parts, sep) ==
  IF parts = <<>> THEN <<>>
  ELSE IF Len(parts) = 1 THEN parts[1]
  ELSE parts[1] \o sep \o Join(Tail(parts), sep)

\* the maximal runs of digits of t, left to right
RECURSIVE DigitRunsFrom(_, _)
DigitRunsFrom(t, i) ==
  IF i > Len(t) THEN <<>>
  ELSE IF t[i] \notin Digit THEN DigitRunsFrom(t, i + 1)
  ELSE LET e == CHOOSE k \in i..Len(t) :
                  /\ \A j \in i..k : t[j] \in Digit
                  /\ (k = Len(t) \/ t[k + 1] \notin Digit)
       IN <<SubSeq(t, i, e)>> \o DigitRunsFrom(t, e + 1)

DigitRuns(t) == DigitRunsFrom(t, 1)

\* ---- JSON-like values (AnyObj / unknown) --------------------------------
\* t is the typeof tag ("undefined", "null", "string", "number", "boolean",
\* "object", "array"); s is the text of a string, String(v) of a number or
\* boolean; kids are the members of an object or array in key order.
JUndef == [t |-> "undefined", s |-> <<>>, kids |-> <<>>]
JNull == [t |-> "null", s |-> <<>>, kids |-> <<>>]
JStr(text) == [t |-> "string", s |-> text, kids |-> <<>>]
JNum(text) == [t |-> "number", s |-> text, kids |-> <<>>]
JTrue == [t |-> "boolean", s |-> <<"t", "r", "u", "e">>, kids |-> <<>>]
JFalse == [t |-> "boolean", s |-> <<"f", "a", "l", "s", "e">>, kids |-> <<>>]
JObj(members) == [t |-> "object", s |-> <<>>, kids |-> members]
JArr(items) == [t |-> "array", s |-> <<>>, kids |-> [i \in 1..Len(items) |-> [k |-> "", v |-> items[i]]]]
Member(key, value) == [k |-> key, v |-> value]

\* obj[key]
Get(obj, key) ==
  IF obj.t = "object" /\ \E i \in 1..Len(obj.kids) : obj.kids[i].k = key
    THEN obj.kids[CHOOSE i \in 1..Len(obj.kids) : obj.kids[i].k = key].v
    ELSE JUndef

\* v === null || v === undefined
Nullish(v) == v.t \in {"undefined", "null"}

\* typeof v === "object" (true of null and of arrays)
TypeofObject(v) == v.t \in {"object", "array", "null"}

\* a ?? b
Coalesce(a, b) == IF Nullish(a) THEN b ELSE a

\* truthiness of a value
TruthyVal(v) ==
  CASE v.t \in {"undefined", "null"} -> FALSE
    [] v.t = "string" -> v.s # <<>>
    [] v.t = "number" -> v.s \notin {<<"0">>, <<"N", "a", "N">>}
    [] v.t = "boolean" -> v = JTrue
    [] OTHER -> TRUE

\* collectStrings: every string leaf, depth first in key order
RECURSIVE collectStrings(_)
collectStrings(obj) ==
  IF obj.t = "string" THEN <<obj.s>>
  ELSE IF obj.t \in {"array", "object"}
    THEN LET RECURSIVE Walk(_)
             Walk(i) == IF i > Len(obj.kids) THEN <<>>
                        ELSE collectStrings(obj.kids[i].v) \o Walk(i + 1)
         IN Walk(1)
  ELSE <<>>

\* parts.join(" ") of the collected strings
AllText(obj) == Join(collectStrings(obj), <<" ">>)

\* toStr of extractCheckId / extractAmount
toStr(v) == IF v.t \in {"string", "number"} THEN JStr(v.s) ELSE JNull

\* normalizeOcrSpaceResult
normalizeOcrSpaceResult(resp) ==
  LET parsedResults == Get(resp, "ParsedResults")
  IN IF parsedResults.t = "array" /\ Len(parsedResults.kids) > 0
       THEN LET first == parsedResults.kids[1].v
                pt == Get(first, "ParsedText")
            IN IF TruthyVal(first) /\ pt.t = "string" THEN pt.s ELSE <<>>
       ELSE LET topText == Get(resp, "ParsedText")
            IN IF topText.t = "string" THEN topText.s ELSE <<>>

\* ---- Field extraction ----------------------------------------------------
\* the first of a set of positions, 0 when there is none
FirstIndex(hits) ==
  IF hits = {} THEN 0 ELSE CHOOSE i \in hits : \A j \in hits : i <= j

\* extractCheckId
extractCheckId(ocrJson) ==
  LET routing == toStr(Coalesce(Coalesce(Get(ocrJson, "routing_number"),
                                         Get(ocrJson, "routing")),
                                Get(ocrJson, "aba")))
      account == toStr(Coalesce(Get(ocrJson, "account_number"),
                                Get(ocrJson, "account")))
      check == toStr(Coalesce(Coalesce(Get(ocrJson, "check_number"),
                                       Get(ocrJson, "check_no")),
                              Get(ocrJson, "cheque_number")))
  IN IF TruthyVal(routing) /\ TruthyVal(account) /\ TruthyVal(check)
       THEN JStr(routing.s \o <<"_">> \o account.s \o <<"_">> \o check.s)
       ELSE LET allText == AllText(ocrJson)
                at == FirstIndex({ i \in 1..Len(allText) : DigitsAt(allText, i, 9) })
            IN IF at = 0 THEN JNull
               ELSE LET routingNum == SubSeq(allText, at, at + 8)
                        digitGroups == SelectSeq(DigitRuns(allText),
                                                 LAMBDA g : Len(g) >= 4)
                        filtered == SelectSeq(digitGroups,
                                              LAMBDA g : g # routingNum)
                    IN IF Len(filtered) < 2 THEN JNull
                       ELSE JStr(routingNum \o <<"_">> \o filtered[1]
                                   \o <<"_">> \o filtered[2])

\* [0-9]{1,3}(?:[.,][0-9]{3})*(?:[.,][0-9]{2}) tried at position p: the
\* position of the last character of the match the backtracking search
\* finds first (longest leading digits, then most groups), 0 for no match
MoneyEnd(t, p) ==
  LET GroupsOk(q, k) ==
        \A j \in 0..(k - 1) :
           /\ q + 4 * j <= Len(t)
           /\ t[q + 4 * j] \in Separator
           /\ DigitsAt(t, q + 4 * j + 1, 3)
      FinalOk(q) ==
        /\ q <= Len(t)
        /\ t[q] \in Separator
        /\ DigitsAt(t, q + 1, 2)
      ways == { w \in (1..3) \X (0..(Len(t) \div 4)) :
                  /\ DigitsAt(t, p, w[1])
                  /\ GroupsOk(p + w[1], w[2])
                  /\ FinalOk(p + w[1] + 4 * w[2]) }
  IN IF p < 1 \/ p > Len(t) \/ t[p] \notin Digit \/ ways = {} THEN 0
     ELSE LET best == CHOOSE w \in ways :
                        \A x \in ways :
                           \/ w[1] > x[1]
                           \/ (w[1] = x[1] /\ w[2] >= x[2])
          IN p + best[1] + 4 * best[2] + 2

\* the position after (?:\$|USD\s?)\s* matched at i (case-insensitive), 0
\* when the prefix does not match at i
AfterCurrencyMark(t, i) ==
  LET j == IF t[i] = "$" THEN i + 1
           ELSE IF /\ i + 2 <= Len(t)
                   /\ ToLowerChar(t[i]) = "u"
                   /\ ToLowerChar(t[i + 1]) = "s"
                   /\ ToLowerChar(t[i + 2]) = "d" THEN i + 3
           ELSE 0
  IN IF j = 0 THEN 0
     ELSE CHOOSE k \in j..(Len(t) + 1) :
            /\ \A m \in j..(k - 1) : t[m] \in Space
            /\ (k = Len(t) + 1 \/ t[k] \notin Space)

\* String.prototype.replace(/,/g, ".")
CommasToDots(t) == [i \in 1..Len(t) |-> IF t[i] = "," THEN "." ELSE t[i]]

\* the capture of the currency-marked pattern in t, <<>> for no match
MoneyWithDollar(t) ==
  LET Here(i) == /\ AfterCurrencyMark(t, i) # 0
                 /\ MoneyEnd(t, AfterCurrencyMark(t, i)) # 0
      at == FirstIndex({ i \in 1..Len(t) : Here(i) })
  IN IF at = 0 THEN <<>>
     ELSE SubSeq(t, AfterCurrencyMark(t, at), MoneyEnd(t, AfterCurrencyMark(t, at)))

\* the capture of the plain decimal pattern in t, <<>> for no match
PlainMoney(t) ==
  LET at == FirstIndex({ i \in 1..Len(t) : MoneyEnd(t, i) # 0 })
  IN IF at = 0 THEN <<>> ELSE SubSeq(t, at, MoneyEnd(t, at))

\* String(Number(digits)) for a short run of digits: leading zeros dropped
RECURSIVE NumberOfDigits(_)
NumberOfDigits(d) ==
  IF Len(d) > 1 /\ d[1] = "0" THEN NumberOfDigits(Tail(d)) ELSE d

\* the last-resort amount: the longest digit run of length 4-7, its last two
\* digits taken as cents; <<>> when there is no such run
DigitRunAmount(t) ==
  LET candidates == SelectSeq(DigitRuns(t), LAMBDA g : Len(g) >= 4 /\ Len(g) <= 7)
  IN IF candidates = <<>> THEN <<>>
     ELSE LET at == FirstIndex({ i \in 1..Len(candidates) :
                                   \A j \in 1..Len(candidates) :
                                      Len(candidates[i]) >= Len(candidates[j]) })
              best == candidates[at]
              dollars == SubSeq(best, 1, Len(best) - 2)
              cents == SubSeq(best, Len(best) - 1, Len(best))
          IN NumberOfDigits(dollars) \o <<".">> \o cents

\* a pattern search that drops thousands separators and keeps the decimal
\* point
StripThousands(m) ==
  SelectSeq(SubSeq(m, 1, Len(m) - 3), LAMBDA ch : ch \in Digit)
    \o <<".">> \o SubSeq(m, Len(m) - 1, Len(m))

\* extractAmount
extractAmount(ocrJson) ==
  LET structured ==
        Coalesce(Coalesce(Coalesce(toStr(Get(ocrJson, "amount")),
                                   toStr(Get(ocrJson, "amount_numeric"))),
                          toStr(Get(ocrJson, "legal_amount"))),
                 toStr(Get(ocrJson, "written_amount")))
      allText == AllText(ocrJson)
  IN IF TruthyVal(structured) THEN structured
     ELSE IF MoneyWithDollar(allText) # <<>>
       THEN JStr(CommasToDots(MoneyWithDollar(allText)))
     ELSE IF PlainMoney(allText) # <<>>
       THEN JStr(CommasToDots(PlainMoney(allText)))
     ELSE IF DigitRunAmount(allText) # <<>>
       THEN JStr(DigitRunAmount(allText))
     ELSE JNull

\* /endorse|endorsement|signed by|signature/i
HasEndorsementKeyword(t) ==
  \/ Contains(ToLower(t), <<"e", "n", "d", "o", "r", "s", "e">>)
  \/ Contains(ToLower(t), <<"e", "n", "d", "o", "r", "s", "e", "m", "e", "n", "t">>)
  \/ Contains(ToLower(t), <<"s", "i", "g", "n", "e", "d", " ", "b", "y">>)
  \/ Contains(ToLower(t), <<"s", "i", "g", "n", "a", "t", "u", "r", "e">>)

\* detectEndorsement
detectEndorsement(ocrJson) ==
  IF Get(ocrJson, "endorsement") = JTrue THEN JTrue
  ELSE IF Get(ocrJson, "signature_present") = JTrue THEN JTrue
  ELSE IF TruthyVal(Get(ocrJson, "endorsement_image")) THEN JTrue
  ELSE IF HasEndorsementKeyword(AllText(ocrJson)) THEN JTrue
  ELSE JFalse

\* ---- Amount canonicalization ---------------------------------------------
\* the value of a run of digits
RECURSIVE DigitsValue(_)
DigitsValue(d) ==
  IF d = <<>> THEN 0
  ELSE 10 * DigitsValue(SubSeq(d, 1, Len(d) - 1))
         + (CHOOSE n \in 0..9 :
              <<"0", "1", "2", "3", "4", "5", "6", "7", "8", "9">>[n + 1] = d[Len(d)])

\* String(amountString).replace(/[^0-9.-]/g, "")
StripAmount(t) == SelectSeq(t, LAMBDA ch : ch \in Digit \cup {".", "-"})

\* Number(t) for a text of digits, "." and "-": the empty text is 0, an
\* optional leading "-" followed by digits with at most one "." is a
\* decimal, everything else is NaN
IsDecimal(t) ==
  LET body == IF t # <<>> /\ t[1] = "-" THEN Tail(t) ELSE t
  IN \/ t = <<>>
     \/ /\ \E i \in 1..Len(body) : body[i] \in Digit
        /\ \A i \in 1..Len(body) : body[i] \in Digit \cup {"."}
        /\ Cardinality({ i \in 1..Len(body) : body[i] = "." }) <= 1

\* no amount / an amount in cents (number | null)
NoCents == [some |-> FALSE, v |-> 0]
SomeCents(n) == [some |-> TRUE, v |-> n]

\* Math.round(Number(t) * 100) for a decimal t (round half up)
RoundCents(t) ==
  LET neg == t # <<>> /\ t[1] = "-"
      body == IF neg THEN Tail(t) ELSE t
      dot == FirstIndex({ i \in 1..Len(body) : body[i] = "." })
      whole == IF dot = 0 THEN body ELSE SubSeq(body, 1, dot - 1)
      frac == IF dot = 0 THEN <<>> ELSE SubSeq(body, dot + 1, Len(body))
      f1 == IF Len(frac) >= 1 THEN DigitsValue(<<frac[1]>>) ELSE 0
      f2 == IF Len(frac) >= 2 THEN DigitsValue(<<frac[2]>>) ELSE 0
      f3 == IF Len(frac) >= 3 THEN DigitsValue(<<frac[3]>>) ELSE 0
      rest == IF Len(frac) >= 4 THEN DigitsValue(SubSeq(frac, 4, Len(frac))) ELSE 0
      m == 100 * DigitsValue(whole) + 10 * f1 + f2
  IN IF ~neg THEN (IF f3 >= 5 THEN m + 1 ELSE m)
     ELSE (IF f3 > 5 \/ (f3 = 5 /\ rest > 0) THEN -(m + 1) ELSE -m)

\* amountCents of POST
Canonicalize(str) ==
  IF TruthyVal(str)
    THEN LET stripped == StripAmount(str.s)
         IN IF IsDecimal(stripped) THEN SomeCents(RoundCents(stripped))
            ELSE NoCents
    ELSE NoCents

\* ---- Deposit forwarding ---------------------------------------------------
\* String(checkId).replace(/[^a-zA-Z0-9-_]/g, "-")
Sanitize(t) ==
  [i \in 1..Len(t) |->
     IF t[i] \in Digit \cup Lower \cup Upper \cup {"-", "_"} THEN t[i] ELSE "-"]

\* a key built from the identity as extracted, without sanitizing
IdempotencyKey_unsanitized(id) ==
  <<"c", "h", "e", "c", "k", "-", "i", "d", "-">> \o id

\* the Idempotency-Key header of the deposit request
IdempotencyKey(id) ==
  <<"c", "h", "e", "c", "k", "-", "i", "d", "-">> \o Sanitize(id)

\* ---- Recognition outputs the providers may return ------------------------
TextMicr == <<"0", "2", "1", "0", "0", "0", "0", "2", "1", " ", "1", "2", "3", "4", "5", "6", " ", "0", "7", "8", "9">>
TextMoney == <<"$", "1", ",", "2", "3", "4", ".", "5", "6", " ", "d", "u", "e">>
TextMicrMoney == <<"0", "2", "1", "0", "0", "0", "0", "2", "1", " ", "1", "2", "3", "4", "5", "6", " ", "0", "7", "8", "9", " ", "$", "1", ",", "2", "3", "4", ".", "5", "6", " ", "d", "u", "e">>
TextMicrPlain == <<"0", "2", "1", "0", "0", "0", "0", "2", "1", " ", "1", "2", "3", "4", "5", "6", " ", "0", "7", "8", "9", " ", "p", "a", "y", " ", "5", "0", ".", "5", "0">>
\* a transcript whose longest digit run has ten digits
TextLongRun == <<"1", "2", "3", "4", "5", "6", "7", "8", "9", "0", " ", "1", "2", "3", "4", "5", "6", " ", "0", "7", "8", "9">>
TextSigned == <<"S", "i", "g", "n", "e", "d", " ", "b", "y", " ", "J">>
TextTrue == <<"t", "r", "u", "e">>

\* check identities a vision response may pre-combine
IdMicr == <<"0", "2", "1", "0", "0", "0", "0", "2", "1", "_", "1", "2", "3", "4", "5", "6", "_", "0", "7", "8", "9">>
IdOdd == <<"A", " ", "1", "/", "2">>

\* "front" of a vision response with the given amount and transcript
VisionFront(a, t) ==
  JObj(<<Member("amount", a),
         Member("routing_number", JNull),
         Member("account_number", JNull),
         Member("check_number", JNull),
         Member("raw_text", JStr(t))>>)

\* "front" of a vision response that carries the identity fields
TextRouting == <<"0", "2", "1", "0", "0", "0", "0", "2", "1">>
TextAccount == <<"1", "2", "3", "4", "5", "6">>
TextCheck == <<"7", "8", "9">>
VisionFrontFields(t) ==
  JObj(<<Member("amount", JNull),
         Member("routing_number", JStr(TextRouting)),
         Member("account_number", JStr(TextAccount)),
         Member("check_number", JStr(TextCheck)),
         Member("raw_text", JStr(t))>>)

FrontAmounts ==
  {JStr(<<"1", "0", "0", ".", "0", "0">>), JStr(<<"0", ".", "0", "0">>), JStr(<<"-", "5", ".", "0", "0">>), JStr(<<"1", ".", "2", ".", "3">>), JStr(<<>>)}

\* "back" of a vision response
VisionBackFlagged ==
  JObj(<<Member("endorsement_present", JTrue), Member("raw_text", JStr(<<>>))>>)
VisionBackSigned ==
  JObj(<<Member("endorsement_present", JFalse), Member("raw_text", JStr(TextSigned))>>)

\* "combined" of a vision response
VisionCombined(a, c) ==
  JObj(<<Member("amount", a), Member("check_id", c), Member("notes", JNull)>>)

CombinedIds == {JNull, JStr(IdMicr), JStr(IdOdd)}

\* what callOpenAIVisionCombined may return: the object the model was asked
\* for (with the amount on the front, or with no amount on the front), an
\* object with a null part, or an empty object
VisionResponses ==
  { JObj(<<Member("front", VisionFront(a, TextMicr)),
           Member("back", VisionBackFlagged),
           Member("combined", VisionCombined(JNull, c))>>) :
      a \in FrontAmounts, c \in CombinedIds }
  \cup
  { JObj(<<Member("front", VisionFront(JNull, t)),
           Member("back", b),
           Member("combined", VisionCombined(a, c))>>) :
      t \in {TextMicr, TextMoney}, b \in {VisionBackFlagged, VisionBackSigned},
      a \in {JNull, JStr(<<"2", "5", "0", ".", "0", "0">>)}, c \in CombinedIds }
  \cup
  { JObj(<<Member("front", VisionFrontFields(t)),
           Member("back", VisionBackFlagged),
           Member("combined", VisionCombined(JNull, c))>>) :
      t \in {<<>>, TextMicr}, c \in {JNull, JStr(IdMicr)} }
  \cup
  { JObj(<<>>),
    JObj(<<Member("front", JNull),
           Member("back", JObj(<<>>)),
           Member("combined", JObj(<<>>))>>),
    JObj(<<Member("front", JObj(<<Member("raw_text", JStr(TextMicr))>>)),
           Member("back", JObj(<<>>)),
           Member("combined", JNull)>>) }

\* what callOcrSpace may return for an image showing the given text
OcrSpaceResult(t) ==
  JObj(<<Member("ParsedResults", JArr(<<JObj(<<Member("ParsedText", JStr(t))>>)>>)),
         Member("IsErroredOnProcessing", JFalse)>>)

OcrFrontTexts == {TextMicr, TextMoney, TextMicrMoney, TextMicrPlain, TextLongRun}
OcrBackTexts == {<<>>, TextSigned}

\* ---- POST /api/check-verification ----------------------------------------
\* number of submissions the route handles
MaxSubmissions == 2

\* no destination account (destAccount is null)
NoAccount == "<none>"
AccountNumbers == {"ACC-1"}

NoResponse ==
  [status |-> 0, error |-> "", check_id |-> JUndef, amount |-> JUndef,
   endorsement_present |-> JUndef]
ErrorResponse(status, message) ==
  [status |-> status, error |-> message, check_id |-> JUndef, amount |-> JUndef,
   endorsement_present |-> JUndef]
CheckProcessed(id, amount, endorsed) ==
  [status |-> 201, error |-> "", check_id |-> id, amount |-> amount,
   endorsement_present |-> endorsed]

\* typeof r["raw_text"] === "string" ? r["raw_text"] : normalizeOcrSpaceResult(r)
RawText(r) ==
  IF Get(r, "raw_text").t = "string" THEN Get(r, "raw_text").s
  ELSE normalizeOcrSpaceResult(r)

CombinedText(front, back) == RawText(front) \o <<"\n">> \o RawText(back)

\* ocrJson of POST
OcrJson(front, back, combined) ==
  JObj(<<Member("parsed_text", JStr(CombinedText(front, back))),
         Member("front", front),
         Member("back", back),
         Member("combined", Coalesce(combined, JObj(<<>>)))>>)

\* reading a property of null throws a TypeError, caught by the outer catch
ExtractThrows(front, back, combined) ==
  \/ front.t = "null"
  \/ back.t = "null"
  \/ TruthyVal(combined) /\ Get(combined, "combined").t = "null"

\* checkId of POST
CheckIdOf(front, back, combined) ==
  IF /\ TruthyVal(combined)
     /\ TypeofObject(Get(combined, "combined"))
     /\ Get(Get(combined, "combined"), "check_id").t = "string"
    THEN JStr(Get(Get(combined, "combined"), "check_id").s)
    ELSE extractCheckId(OcrJson(front, back, combined))

\* tryStr of POST
tryStr(r) == IF Get(r, "amount").t = "string" THEN JStr(Get(r, "amount").s) ELSE JNull

\* tryCombined of POST
tryCombined(c) ==
  IF /\ TruthyVal(c)
     /\ TypeofObject(Get(c, "combined"))
     /\ Get(Get(c, "combined"), "amount").t = "string"
    THEN JStr(Get(Get(c, "combined"), "amount").s)
    ELSE JNull

\* amountString of POST
AmountStringOf(front, back, combined) ==
  Coalesce(Coalesce(Coalesce(tryStr(front), tryStr(back)), tryCombined(combined)),
           extractAmount(OcrJson(front, back, combined)))

\* tryBool of POST
tryBool(r) ==
  IF ~TruthyVal(r) THEN r
  ELSE IF \/ Get(r, "endorsement_present") = JTrue
          \/ Get(r, "endorsement_present") = JStr(TextTrue)
    THEN JTrue
    ELSE JFalse

\* endorsementPresent of POST
EndorsementOf(front, back, combined) ==
  Coalesce(Coalesce(Coalesce(tryBool(back), tryBool(front)),
                    detectEndorsement(back)),
           detectEndorsement(OcrJson(front, back, combined)))

RouteInit ==
  /\ rpc = "idle"
  /\ nSub = 0
  /\ frontResp = JObj(<<>>)
  /\ backResp = JObj(<<>>)
  /\ combinedResp = JNull
  /\ checkId = JUndef
  /\ amountString = JUndef
  /\ endorsementPresent = JUndef
  /\ amountCents = NoCents
  /\ destAccount = NoAccount
  /\ depositOutcome = "none"
  /\ response = NoResponse
  /\ deposits = <<>>

\* return new Response(...): the handler ends with response r
Respond(r) == /\ response' = r
              /\ rpc' = "done"

\* a request arrives: the handler starts with fresh locals
Receive ==
  /\ rpc \in {"idle", "done"}
  /\ nSub < MaxSubmissions
  /\ nSub' = nSub + 1
  /\ rpc' = "auth"
  /\ frontResp' = JObj(<<>>)
  /\ backResp' = JObj(<<>>)
  /\ combinedResp' = JNull
  /\ checkId' = JUndef
  /\ amountString' = JUndef
  /\ endorsementPresent' = JUndef
  /\ amountCents' = NoCents
  /\ destAccount' = NoAccount
  /\ depositOutcome' = "none"
  /\ response' = NoResponse
  /\ UNCHANGED deposits
  /\ UNCHANGED ledgerVars

\* getAuthUserFromRequest: not ok answers auth.status ?? 401
Authenticate ==
  /\ rpc = "auth"
  /\ \E ok \in BOOLEAN :
       IF ok THEN rpc' = "form" /\ response' = response
       ELSE Respond(ErrorResponse(401, "Unauthorized"))
  /\ UNCHANGED <<nSub, frontResp, backResp, combinedResp, checkId, amountString,
                 endorsementPresent, amountCents, destAccount, depositOutcome,
                 deposits>>
  /\ UNCHANGED ledgerVars

\* request.formData(): both images are required
ParseForm ==
  /\ rpc = "form"
  /\ \E form \in {"both", "frontOnly", "backOnly", "none", "malformed"} :
       CASE form = "both" -> rpc' = "recognize" /\ response' = response
         [] form = "malformed" ->
              Respond(ErrorResponse(500, "Internal server error"))
         [] OTHER ->
              Respond(ErrorResponse(400, "Both 'front' and 'back' images are required."))
  /\ UNCHANGED <<nSub, frontResp, backResp, combinedResp, checkId, amountString,
                 endorsementPresent, amountCents, destAccount, depositOutcome,
                 deposits>>
  /\ UNCHANGED ledgerVars

\* the recognition step: the vision provider when OPENAI_API_KEY is set,
\* else two OCR calls, else 500; a failing call answers 502
Recognize ==
  /\ rpc = "recognize"
  /\ \/ \E r \in VisionResponses :
          /\ combinedResp' = r
          /\ frontResp' = IF TypeofObject(Get(r, "front")) THEN Get(r, "front")
                          ELSE JObj(<<>>)
          /\ backResp' = IF TypeofObject(Get(r, "back")) THEN Get(r, "back")
                         ELSE JObj(<<>>)
          /\ rpc' = "extract"
          /\ response' = response
     \/ \E ft \in OcrFrontTexts, bt \in OcrBackTexts :
          /\ combinedResp' = JNull
          /\ frontResp' = OcrSpaceResult(ft)
          /\ backResp' = OcrSpaceResult(bt)
          /\ rpc' = "extract"
          /\ response' = response
     \/ /\ Respond(ErrorResponse(500, "OCR service not configured."))
        /\ UNCHANGED <<frontResp, backResp, combinedResp>>
     \/ /\ Respond(ErrorResponse(502, "OCR/vision service error"))
        /\ UNCHANGED <<frontResp, backResp, combinedResp>>
  /\ UNCHANGED <<nSub, checkId, amountString, endorsementPresent, amountCents,
                 destAccount, depositOutcome, deposits>>
  /\ UNCHANGED ledgerVars

\* field extraction and amount canonicalization
Extract ==
  /\ rpc = "extract"
  /\ IF ExtractThrows(frontResp, backResp, combinedResp)
       THEN /\ Respond(ErrorResponse(500, "Internal server error"))
            /\ UNCHANGED <<checkId, amountString, endorsementPresent, amountCents>>
       ELSE LET id == CheckIdOf(frontResp, backResp, combinedResp)
                amount == AmountStringOf(frontResp, backResp, combinedResp)
            IN /\ checkId' = id
               /\ IF ~TruthyVal(id)
                    THEN /\ Respond(ErrorResponse(400,
                                      "Could not extract check ID from images."))
                         /\ UNCHANGED <<amountString, endorsementPresent, amountCents>>
                    ELSE /\ amountString' = amount
                         /\ endorsementPresent' =
                              EndorsementOf(frontResp, backResp, combinedResp)
                         /\ amountCents' = Canonicalize(amount)
                         /\ rpc' = "resolve"
                         /\ response' = response
  /\ UNCHANGED <<nSub, frontResp, backResp, combinedResp, destAccount,
                 depositOutcome, deposits>>
  /\ UNCHANGED ledgerVars

\* prisma.user.findUnique and prisma.internalAccount.findFirst
ResolveAccount ==
  /\ rpc = "resolve"
  /\ \/ \E a \in AccountNumbers \cup {NoAccount} :
          /\ destAccount' = a
          /\ rpc' = "forward"
          /\ response' = response
     \/ /\ Respond(ErrorResponse(500, "Internal server error"))
        /\ UNCHANGED destAccount
  /\ UNCHANGED <<nSub, frontResp, backResp, combinedResp, checkId, amountString,
                 endorsementPresent, amountCents, depositOutcome, deposits>>
  /\ UNCHANGED ledgerVars

\* the deposit request of POST
DepositRequest(n, account, id, cents) ==
  [ sub                        |-> n,
    idempotency_key            |-> IdempotencyKey(id.s),
    requested_transaction_type |-> "deposit",
    transaction_direction      |-> "inbound",
    destination_account_number |-> account,
    requested_amount           |-> cents.v,
    check_number               |-> id.s ]

\* destAccount && amountCents !== null
ShouldForward(account, cents) == account # NoAccount /\ cents.some

\* a forwarder without the try/catch around fetch: a transport failure
\* reaches the outer catch
ForwardResponse_uncaught(outcome, id, amount, endorsed) ==
  IF outcome = "failed" THEN ErrorResponse(500, "Internal server error")
  ELSE CheckProcessed(id, Coalesce(amount, JNull), endorsed)

\* a forwarder that answers 502 when the deposit endpoint does not answer 2xx
ForwardResponse_propagate(outcome, id, amount, endorsed) ==
  IF outcome = "notOk" THEN ErrorResponse(502, "Deposit forward failed")
  ELSE CheckProcessed(id, Coalesce(amount, JNull), endorsed)

\* the response after the forwarding step: the deposit's outcome is only
\* logged
ForwardResponse(outcome, id, amount, endorsed) ==
  CheckProcessed(id, Coalesce(amount, JNull), endorsed)

\* deposit forwarding and the 201 response
Forward ==
  /\ rpc = "forward"
  /\ IF ShouldForward(destAccount, amountCents)
       THEN /\ deposits' = Append(deposits,
                             DepositRequest(nSub, destAccount, checkId, amountCents))
            /\ \E outcome \in {"ok", "notOk", "failed"} : depositOutcome' = outcome
       ELSE /\ deposits' = deposits
            /\ depositOutcome' = "skipped"
  /\ Respond(ForwardResponse(depositOutcome', checkId, amountString,
                             endorsementPresent))
  /\ UNCHANGED <<nSub, frontResp, backResp, combinedResp, checkId, amountString,
                 endorsementPresent, amountCents, destAccount>>
  /\ UNCHANGED ledgerVars

RouteNext ==
  \/ Receive
  \/ Authenticate
  \/ ParseForm
  \/ Recognize
  \/ Extract
  \/ ResolveAccount
  \/ Forward

Init == LedgerInit /\ RouteInit

LedgerSpec == Init /\ [][LedgerNext]_vars

RouteSpec == Init /\ [][RouteNext]_vars

\* ------------------------------------------------------------------------
\* Properties of the check-verification route
\* ------------------------------------------------------------------------
DepositsOf(n) == { i \in 1..Len(deposits) : deposits[i].sub = n }

\* the text that extractAmount searches
SearchedText == AllText(OcrJson(frontResp, backResp, combinedResp))

\* the amount came from the pattern search: no structured strategy answered
AmountFromText ==
  /\ amountString # JUndef
  /\ Nullish(tryStr(frontResp))
  /\ Nullish(tryStr(backResp))
  /\ Nullish(tryCombined(combinedResp))

\* C5: a deposit request is issued only for a finite, strictly positive
\* canonical amount (at least one cent).
C5_DepositOnlyPositive ==
  \A i \in 1..Len(deposits) : deposits[i].requested_amount >= 1

\* C6: a submission that ends with a failure response issued no deposit
\* request (hence caused no ledger write), and after a recognition failure
\* (502) extraction was never reached.
C6_FailuresWriteNothing ==
  (rpc = "done" /\ response.status # 201)
  => /\ DepositsOf(nSub) = {}
     /\ depositOutcome = "none"
     /\ response.status \in {400, 401, 500, 502}
     /\ response.status = 502
          => /\ checkId = JUndef
             /\ amountString = JUndef
             /\ endorsementPresent = JUndef
             /\ amountCents = NoCents

\* C6 witness: the second submission failed at recognition after the first
\* one had forwarded a deposit
C6_Witness ==
  /\ rpc = "done"
  /\ response.status = 502
  /\ nSub = 2
  /\ Len(deposits) = 1

KeyCarriesIdentity(key, id) ==
  /\ Len(key) = 9 + Len(id)
  /\ SubSeq(key, 1, 9) = <<"c", "h", "e", "c", "k", "-", "i", "d", "-">>
  /\ \A j \in 1..Len(id) :
        IF id[j] \in Digit \cup Lower \cup Upper \cup {"-", "_"}
          THEN key[9 + j] = id[j]
          ELSE key[9 + j] = "-"

\* C8: a submission issues at most one deposit request, exactly one when a
\* destination account is resolved and a canonical amount is available; the
\* request's key is check-id-<sanitized identity>, so two submissions with
\* the same identity send the same key.
C8_OneKeyedDeposit ==
  /\ \A n \in 1..nSub : Cardinality(DepositsOf(n)) <= 1
  /\ (rpc = "done" /\ response.status = 201
        /\ destAccount # NoAccount /\ amountCents.some)
       => Cardinality(DepositsOf(nSub)) = 1
  /\ (rpc = "done" /\ (destAccount = NoAccount \/ ~amountCents.some))
       => DepositsOf(nSub) = {}
  /\ \A i \in 1..Len(deposits) :
        KeyCarriesIdentity(deposits[i].idempotency_key, deposits[i].check_number)
  /\ \A i, j \in 1..Len(deposits) :
        deposits[i].check_number = deposits[j].check_number
          => deposits[i].idempotency_key = deposits[j].idempotency_key

\* C8 witness: two submissions resolved the same identity, one that needs
\* sanitizing, and each forwarded a deposit
C8_Witness ==
  /\ Len(deposits) = 2
  /\ deposits[1].sub # deposits[2].sub
  /\ deposits[1].check_number = IdOdd
  /\ deposits[2].check_number = IdOdd

\* C10: when the searched text holds a currency-marked amount, the extracted
\* amount string is that amount with its thousands separators removed and a
\* single decimal point ("$1,234.56 due" gives "1234.56").
C10_CurrencyAmountNormalized ==
  (AmountFromText /\ MoneyWithDollar(SearchedText) # <<>>)
  => amountString = JStr(StripThousands(MoneyWithDollar(SearchedText)))

\* the strategies of the endorsement chain, on the recognition results of
\* the current submission
ExplicitEndorsement ==
  \E r \in {backResp, frontResp} :
     \/ Get(r, "endorsement_present") \in {JTrue, JStr(TextTrue)}
     \/ Get(r, "endorsement") = JTrue
     \/ Get(r, "signature_present") = JTrue

EndorsementImage ==
  \E r \in {backResp, frontResp} : TruthyVal(Get(r, "endorsement_image"))

BackKeyword == HasEndorsementKeyword(AllText(backResp))

CombinedKeyword ==
  HasEndorsementKeyword(AllText(OcrJson(frontResp, backResp, combinedResp)))

\* C11: the endorsement flag is true exactly when one strategy of the chain
\* (explicit true field, endorsement image, keyword in the back-side text,
\* keyword in the combined text) finds something; in particular a back side
\* without an explicit true field whose text holds a keyword is endorsed.
C11_EndorsementChain ==
  endorsementPresent # JUndef
  => /\ endorsementPresent \in {JTrue, JFalse}
     /\ endorsementPresent = JTrue
          <=> (ExplicitEndorsement \/ EndorsementImage
                 \/ BackKeyword \/ CombinedKeyword)

\* the submission carries a pre-combined identity string
PreCombinedIdentity ==
  /\ TruthyVal(combinedResp)
  /\ TypeofObject(Get(combinedResp, "combined"))
  /\ Get(Get(combinedResp, "combined"), "check_id").t = "string"

\* the explicit routing / account / check fields of one recognition result,
\* under their aliases
RoutingField(r) ==
  toStr(Coalesce(Coalesce(Get(r, "routing_number"), Get(r, "routing")),
                 Get(r, "aba")))
AccountField(r) == toStr(Coalesce(Get(r, "account_number"), Get(r, "account")))
CheckField(r) ==
  toStr(Coalesce(Coalesce(Get(r, "check_number"), Get(r, "check_no")),
                 Get(r, "cheque_number")))

CarriesIdentityFields(r) ==
  TruthyVal(RoutingField(r)) /\ TruthyVal(AccountField(r)) /\ TruthyVal(CheckField(r))

\* C12: without a pre-combined identity, a recognition result (front or
\* back) that carries explicit routing, account and check fields gives the
\* identity routing_account_check built from those fields, not from the
\* text heuristic.
C12_StructuredIdentity ==
  (checkId # JUndef /\ ~PreCombinedIdentity)
  => \A r \in {frontResp, backResp} :
        CarriesIdentityFields(r)
        => checkId = JStr(RoutingField(r).s \o <<"_">> \o AccountField(r).s
                            \o <<"_">> \o CheckField(r).s)

\* t holds a run of exactly 9 digits: 9 digits with no digit before or after
HasRoutingRun(t) ==
  \E i \in 1..Len(t) :
     /\ DigitsAt(t, i, 9)
     /\ (i = 1 \/ t[i - 1] \notin Digit)
     /\ (i + 9 > Len(t) \/ t[i + 9] \notin Digit)

\* C13: when the flattened text holds no run of exactly 9 digits (and no
\* pre-combined identity is given), identity extraction gives null and the
\* submission is answered 400 with no deposit.
C13_NoRoutingRunFails ==
  (checkId # JUndef /\ ~PreCombinedIdentity /\ ~HasRoutingRun(SearchedText))
  => /\ checkId = JNull
     /\ rpc = "done"
     /\ response.status = 400
     /\ DepositsOf(nSub) = {}

\* the deduplication key K of a request: the idempotency key when one is
\* present, else the check number
DedupKey(p) ==
  IF Truthy(p.idempotency_key) THEN p.idempotency_key ELSE p.check_number

\* record r matches request p on the base tuple and carries K in either field
MatchesOnKey(r, p) ==
  /\ Truthy(DedupKey(p))
  /\ r.transaction_type = p.transaction_type
  /\ r.internal_account_id = p.internal_account_id
  /\ r.amount = p.amount
  /\ (p.bill_pay_rule_id # NoRule => r.bill_pay_rule_id = p.bill_pay_rule_id)
  /\ (p.transfer_rule_id # NoRule => r.transfer_rule_id = p.transfer_rule_id)
  /\ (r.idempotency_key = DedupKey(p) \/ r.check_number = DedupKey(p))

\* C14: the lookup returns a record if and only if some record equals the
\* request on (transaction_type, internal_account_id, amount, rule ids when
\* given) and has idempotency_key = K or check_number = K, K being the
\* idempotency key when present and the check number otherwise; the record
\* returned is such a record, and without either key nothing is returned.
C14_LookupByOneKey ==
  [][ \A c \in Callers :
        (lpc[c] = "lookup" /\ lpc'[c] # "lookup")
        => /\ found'[c] # 0
                <=> \E i \in 1..Len(transactions) :
                       MatchesOnKey(transactions[i], req[c])
           /\ found'[c] # 0
                => MatchesOnKey(transactions[found'[c]], req[c])
    ]_vars

\* record r matches request p on the base tuple and carries the request's
\* idempotency key in idempotency_key or its check number in check_number
MatchesOwnColumn(r, p) ==
  /\ Truthy(p.idempotency_key) \/ Truthy(p.check_number)
  /\ r.transaction_type = p.transaction_type
  /\ r.internal_account_id = p.internal_account_id
  /\ r.amount = p.amount
  /\ (p.bill_pay_rule_id # NoRule => r.bill_pay_rule_id = p.bill_pay_rule_id)
  /\ (p.transfer_rule_id # NoRule => r.transfer_rule_id = p.transfer_rule_id)
  /\ \/ Truthy(p.idempotency_key) /\ r.idempotency_key = p.idempotency_key
     \/ p.check_number # NULL /\ r.check_number = p.check_number

\* C14 (amended): the lookup compares each key with its own column: a record
\* is returned if and only if some record equals the request on the base
\* tuple and has idempotency_key equal to the request's non-empty idempotency
\* key or check_number equal to the request's check number; without a
\* non-empty key of either kind nothing is returned.
C14_LookupByOwnColumn ==
  [][ \A c \in Callers :
        (lpc[c] = "lookup" /\ lpc'[c] # "lookup")
        => /\ found'[c] # 0
                <=> \E i \in 1..Len(transactions) :
                       MatchesOwnColumn(transactions[i], req[c])
           /\ found'[c] # 0
                => MatchesOwnColumn(transactions[found'[c]], req[c])
    ]_vars

\* C14 witness: a request with an idempotency key was matched through its
\* check number, by a record that has no idempotency key
C14_Witness ==
  \E c \in Callers :
    /\ found[c] # 0
    /\ req[c].idempotency_key = "k1"
    /\ transactions[found[c]].idempotency_key = NULL
    /\ transactions[found[c]].check_number = req[c].check_number

\* the pattern search and the digit-run fallback over the flattened text,
\* null when they find nothing
PatternStrategy ==
  IF MoneyWithDollar(SearchedText) # <<>>
    THEN JStr(CommasToDots(MoneyWithDollar(SearchedText)))
  ELSE IF PlainMoney(SearchedText) # <<>>
    THEN JStr(CommasToDots(PlainMoney(SearchedText)))
  ELSE JNull

DigitRunStrategy ==
  IF DigitRunAmount(SearchedText) # <<>> THEN JStr(DigitRunAmount(SearchedText))
  ELSE JNull

\* the amount strategies in their order
AmountStrategies ==
  <<tryStr(frontResp), tryStr(backResp), tryCombined(combinedResp),
    PatternStrategy, DigitRunStrategy>>

\* the first entry that is a non-empty string, null when there is none
FirstNonEmpty(strategies) ==
  LET at == FirstIndex({ i \in 1..Len(strategies) : TruthyVal(strategies[i]) })
  IN IF at = 0 THEN JNull ELSE strategies[at]

\* C15: the amount of a submission is the result of the first strategy, in
\* the order front field, back field, pre-combined amount, pattern search,
\* digit-run fallback, that yields a non-empty string; empty and absent
\* results are skipped, and the amount is null only when every one fails.
C15_FirstNonEmptyAmount ==
  amountString # JUndef => amountString = FirstNonEmpty(AmountStrategies)

====
